---- MODULE Spec2Model ----
(***************************************************************************)
(* Model of app.py: the Streamlit attendance summariser.  A user picks a   *)
(* source type and uploads a table; process_growthflow or                  *)
(* process_webinarjam turns it into a summary table or reports an error    *)
(* through st.error and returns None.                                      *)
(*                                                                         *)
(* Strings that the code takes apart (split, strip, lower, sort order) are *)
(* sequences of one-character strings.  pandas semantics are those of the  *)
(* 2.x series: read_csv/read_excel with dtype=str give NaN for an empty    *)
(* cell, astype(str) turns NaN into the text "nan", groupby sorts its      *)
(* keys.                                                                   *)
(***************************************************************************)
EXTENDS Integers, Sequences, FiniteSets, TLC

VARIABLES option, uploaded_file, phase, returned, result_df, st_error, steps

vars == <<option, uploaded_file, phase, returned, result_df, st_error, steps>>

\* Largest number of data rows of an uploaded table.
MaxRows == 3

Range(s) == {s[i] : i \in DOMAIN s}

(***************************************************************************)
(* Cell values                                                             *)
(***************************************************************************)

\* The missing value pandas puts in an empty cell.
NaN == <<"NaN">>

\* Code point of a character (Python compares strings by code point).
Code(c) ==
    CASE c = " " -> 32 [] c = "," -> 44 [] c = "1" -> 49 [] c = "2" -> 50
      [] c = "A" -> 65 [] c = "B" -> 66 [] c = "E" -> 69 [] c = "S" -> 83
      [] c = "Y" -> 89 [] c = "a" -> 97 [] c = "b" -> 98 [] c = "e" -> 101
      [] c = "m" -> 109 [] c = "n" -> 110 [] c = "o" -> 111 [] c = "p" -> 112
      [] c = "s" -> 115 [] c = "y" -> 121

\* str.lower
lower(x) ==
    [i \in DOMAIN x |->
        CASE x[i] = "A" -> "a" [] x[i] = "B" -> "b" [] x[i] = "E" -> "e"
          [] x[i] = "S" -> "s" [] x[i] = "Y" -> "y" [] OTHER -> x[i]]

RECURSIVE lstrip(_)
lstrip(x) == IF x # <<>> /\ Head(x) = " " THEN lstrip(Tail(x)) ELSE x

RECURSIVE rstrip(_)
rstrip(x) ==
    IF x # <<>> /\ x[Len(x)] = " " THEN rstrip(SubSeq(x, 1, Len(x) - 1)) ELSE x

\* str.strip
strip(x) == rstrip(lstrip(x))

\* str.split(sep): the pieces between the separators, in order.
RECURSIVE split(_, _)
split(x, sep) ==
    IF \A i \in DOMAIN x : x[i] # sep
    THEN <<x>>
    ELSE LET i == CHOOSE k \in DOMAIN x :
                      x[k] = sep /\ \A j \in 1..(k - 1) : x[j] # sep
         IN  <<SubSeq(x, 1, i - 1)>> \o split(SubSeq(x, i + 1, Len(x)), sep)

\* Series.astype(str): NaN becomes the text "nan".
astype_str(x) == IF x = NaN THEN <<"n", "a", "n">> ELSE x

\* Series.fillna(''): only a value that is still missing is replaced.
fillna(x) == IF x = NaN THEN <<>> ELSE x

\* Order of two strings.
RECURSIVE StrLess(_, _)
StrLess(s, t) ==
    IF s = <<>> THEN t # <<>>
    ELSE IF t = <<>> THEN FALSE
    ELSE IF Head(s) # Head(t) THEN Code(Head(s)) < Code(Head(t))
    ELSE StrLess(Tail(s), Tail(t))

\* Order of two group keys (tuples of strings), as groupby sorts them.
RECURSIVE KeyLess(_, _)
KeyLess(k, l) ==
    IF k = <<>> THEN l # <<>>
    ELSE IF l = <<>> THEN FALSE
    ELSE IF Head(k) # Head(l) THEN StrLess(Head(k), Head(l))
    ELSE KeyLess(Tail(k), Tail(l))

\* Variant: the keys in descending order.
RECURSIVE sorted_keys_descending(_)
sorted_keys_descending(S) ==
    IF S = {} THEN <<>>
    ELSE LET m == CHOOSE k \in S : \A l \in S : l = k \/ KeyLess(l, k)
         IN  <<m>> \o sorted_keys_descending(S \ {m})

\* The group keys of a groupby, in the order the result lists them.
RECURSIVE sorted_keys(_)
sorted_keys(S) ==
    IF S = {} THEN <<>>
    ELSE LET m == CHOOSE k \in S : \A l \in S : l = k \/ KeyLess(k, l)
         IN  <<m>> \o sorted_keys(S \ {m})

RECURSIVE Sum(_)
Sum(s) == IF s = <<>> THEN 0 ELSE Head(s) + Sum(Tail(s))

(***************************************************************************)
(* Outcomes of a processing call                                           *)
(***************************************************************************)

\* The call returns the summary table.
Summary(df, done) ==
    [returned |-> "summary", result_df |-> df, st_error |-> <<>>, steps |-> done]

\* The call reports msg through st.error and returns None.
Failure(msg, done) ==
    [returned |-> "None", result_df |-> <<>>, st_error |-> <<msg>>, steps |-> done]

UnsupportedFormat ==
    [text |-> <<"Unsupported file format. Please upload a .csv or .xlsx file.">>,
     args |-> <<>>]

\* Variant: the message without the list of expected columns.
MissingColumns_without_list(source, required_columns) ==
    [text |-> <<"Missing columns in ", source, " file. Expected columns: ">>,
     args |-> <<>>]

\* f"Missing columns in {source} file. Expected columns: {required_columns}"
MissingColumns(source, required_columns) ==
    [text |-> <<"Missing columns in ", source, " file. Expected columns: ">>,
     args |-> <<required_columns>>]

\* f"Error processing {source} file: {e}"
ErrorProcessing(source, e) ==
    [text |-> <<"Error processing ", source, " file: ">>, args |-> <<<<e>>>>]

\* file.name.split('.')[-1].lower()
file_extension(file) == lower(file.extension)

supported_extensions == {<<"c", "s", "v">>, <<"x", "l", "s", "x">>}

\* Variant: any() in place of all().
has_any_required_column(columns, required_columns) ==
    \E i \in DOMAIN required_columns : required_columns[i] \in columns

\* all(col in df.columns for col in required_columns)
has_required_columns(columns, required_columns) ==
    \A i \in DOMAIN required_columns : required_columns[i] \in columns

(***************************************************************************)
(* Growthflow                                                              *)
(***************************************************************************)

growthflow_columns == <<"First Name", "Email", "Phone", "Attendance_Day">>

\* lambda x: set(x.split(',')) if x else set()
day_set(x) == IF x # <<>> THEN Range(split(x, ",")) ELSE {}

\* Lines 46-49 on one cell: astype(str), fillna(''), then the split.
record_day_set(x) == day_set(fillna(astype_str(x)))

\* The order in which a set of tokens is iterated is not fixed by the
\* language; rev selects one of two orders.
RECURSIVE token_list(_, _)
token_list(S, rev) ==
    IF S = {} THEN <<>>
    ELSE LET m == CHOOSE t \in S : \A u \in S :
                      u = t \/ (IF rev THEN StrLess(u, t) ELSE StrLess(t, u))
         IN  <<m>> \o token_list(S \ {m}, rev)

\* DataFrame.explode('Attendance_Day'): one row per token, a single row
\* holding NaN for an empty set.
RECURSIVE explode(_, _)
explode(df, rev) ==
    IF df = <<>> THEN <<>>
    ELSE LET r == Head(df)
             tokens == token_list(r.Attendance_Day, rev)
         IN  (IF tokens = <<>>
              THEN <<[r EXCEPT !.Attendance_Day = NaN]>>
              ELSE [i \in DOMAIN tokens |-> [r EXCEPT !.Attendance_Day = tokens[i]]])
             \o explode(Tail(df), rev)

\* groupby('Email')['Attendance_Day'].transform('nunique') for one row:
\* the number of distinct non-missing values in the row's group.
nunique(df, email) ==
    Cardinality({df[i].Attendance_Day : i \in {j \in DOMAIN df : df[j].Email = email}}
                \ {NaN})

\* Variant: drop_duplicates(['Email'], keep='last').
drop_duplicates_keep_last(df) ==
    LET Kept(i) == \A j \in (i + 1)..Len(df) : df[j].Email # df[i].Email
        F[i \in 0..Len(df)] ==
            IF i = 0 THEN <<>>
            ELSE IF Kept(i) THEN Append(F[i - 1], df[i]) ELSE F[i - 1]
    IN  F[Len(df)]

\* DataFrame.drop_duplicates(['Email']): the first row of every email.
drop_duplicates(df) ==
    LET Kept(i) == \A j \in 1..(i - 1) : df[j].Email # df[i].Email
        F[i \in 0..Len(df)] ==
            IF i = 0 THEN <<>>
            ELSE IF Kept(i) THEN Append(F[i - 1], df[i]) ELSE F[i - 1]
    IN  F[Len(df)]

\* Counter(names).most_common(1)[0][0]: the highest count; among equal
\* counts the name inserted first.
most_frequent_name(names) ==
    IF Len(names) > 0
    THEN LET Count(n) == Cardinality({i \in DOMAIN names : names[i] = n})
             best == CHOOSE i \in DOMAIN names :
                        /\ \A j \in DOMAIN names : Count(names[j]) <= Count(names[i])
                        /\ \A j \in 1..(i - 1) : Count(names[j]) < Count(names[i])
         IN  names[best]
    ELSE <<>>

\* The 'first' aggregation: the first value of the group that is not missing.
first(values) ==
    IF \A i \in DOMAIN values : values[i] = NaN THEN NaN
    ELSE values[CHOOSE i \in DOMAIN values :
                    values[i] # NaN /\ \A j \in 1..(i - 1) : values[j] = NaN]

get_most_frequent_first_name(df) ==
    LET keys == sorted_keys({<<df[i].Email>> : i \in DOMAIN df})
        Group(k) == SelectSeq(df, LAMBDA r : r.Email = k[1])
        Column(g, c) == [i \in DOMAIN g |-> g[i][c]]
    IN  [n \in DOMAIN keys |->
            LET g == Group(keys[n])
            IN  [Email |-> keys[n][1],
                 First_Name |-> most_frequent_name(Column(g, "First_Name")),
                 Phone |-> first(Column(g, "Phone")),
                 Attendance |-> Sum(Column(g, "Attendance"))]]

growthflow_steps ==
    <<"read", "required_columns", "select", "astype", "split", "explode",
      "nunique", "drop_duplicates", "groupby">>

process_growthflow_result(file, rev) ==
    IF file_extension(file) \notin supported_extensions
    THEN Failure(UnsupportedFormat, <<>>)
    ELSE IF ~has_required_columns(file.columns, growthflow_columns)
    THEN Failure(MissingColumns("Growthflow", growthflow_columns),
                 SubSeq(growthflow_steps, 1, 2))
    ELSE IF \E c \in Range(growthflow_columns) : c \notin file.columns
    THEN \* df[required_columns] raises KeyError
         Failure(ErrorProcessing("Growthflow", "KeyError"),
                 SubSeq(growthflow_steps, 1, 3))
    ELSE LET df == file.rows
             as_sets == [i \in DOMAIN df |->
                 [df[i] EXCEPT !.Attendance_Day = record_day_set(@)]]
             exploded == explode(as_sets, rev)
             counted == [i \in DOMAIN exploded |->
                 [First_Name |-> exploded[i].First_Name,
                  Email |-> exploded[i].Email,
                  Phone |-> exploded[i].Phone,
                  Attendance_Day |-> exploded[i].Attendance_Day,
                  Attendance |-> nunique(exploded, exploded[i].Email)]]
         IN  Summary(get_most_frequent_first_name(drop_duplicates(counted)),
                     growthflow_steps)

(***************************************************************************)
(* WebinarJam                                                              *)
(***************************************************************************)

webinarjam_columns == <<"First name", "Email", "Phone number", "Attended live">>

\* lambda x: 1 if x.lower() == 'yes' else 0
attended(x) == IF lower(x) = <<"y", "e", "s">> THEN 1 ELSE 0

\* Variant: groupby('Email') alone, keeping the first name and phone.
webinarjam_summary_by_email(df) ==
    LET keys == sorted_keys({<<df[i].Email>> : i \in DOMAIN df})
        Group(k) == SelectSeq(df, LAMBDA r : r.Email = k[1])
    IN  [n \in DOMAIN keys |->
            LET g == Group(keys[n])
            IN  [First_Name |-> g[1].First_name,
                 Email |-> keys[n][1],
                 Phone |-> g[1].Phone_number,
                 Attendance |-> Sum([i \in DOMAIN g |-> g[i].Attendance])]]

\* groupby(['First name', 'Email', 'Phone number'])['Attendance'].sum()
\* .reset_index(), then the rename to First Name / Phone.
webinarjam_summary(df) ==
    LET Key(r) == <<r.First_name, r.Email, r.Phone_number>>
        keys == sorted_keys({k \in {Key(df[i]) : i \in DOMAIN df} :
                                \A j \in DOMAIN k : k[j] # NaN})
        Group(k) == SelectSeq(df, LAMBDA r : Key(r) = k)
    IN  [n \in DOMAIN keys |->
            LET g == Group(keys[n])
            IN  [First_Name |-> keys[n][1],
                 Email |-> keys[n][2],
                 Phone |-> keys[n][3],
                 Attendance |-> Sum([i \in DOMAIN g |-> g[i].Attendance])]]

webinarjam_steps ==
    <<"read", "required_columns", "select", "strip", "apply", "groupby", "rename">>

process_webinarjam_result(file) ==
    IF file_extension(file) \notin supported_extensions
    THEN Failure(UnsupportedFormat, <<>>)
    ELSE IF ~has_required_columns(file.columns, webinarjam_columns)
    THEN Failure(MissingColumns("WebinarJam", webinarjam_columns),
                 SubSeq(webinarjam_steps, 1, 2))
    ELSE IF \E c \in Range(webinarjam_columns) : c \notin file.columns
    THEN \* df[required_columns] raises KeyError
         Failure(ErrorProcessing("WebinarJam", "KeyError"),
                 SubSeq(webinarjam_steps, 1, 3))
    ELSE LET df == file.rows
             stripped == [i \in DOMAIN df |->
                 [df[i] EXCEPT !.Phone_number = strip(astype_str(@))]]
         IN  IF \E i \in DOMAIN df : df[i].Attended_live = NaN
             THEN \* x.lower() on a float NaN raises AttributeError
                  Failure(ErrorProcessing("WebinarJam", "AttributeError"),
                          SubSeq(webinarjam_steps, 1, 5))
             ELSE LET flagged == [i \in DOMAIN stripped |->
                          [First_name |-> stripped[i].First_name,
                           Email |-> stripped[i].Email,
                           Phone_number |-> stripped[i].Phone_number,
                           Attended_live |-> stripped[i].Attended_live,
                           Attendance |-> attended(stripped[i].Attended_live)]]
                  IN  Summary(webinarjam_summary(flagged), webinarjam_steps)

(***************************************************************************)
(* Uploaded tables                                                         *)
(***************************************************************************)

\* Name, email and phone cells are non-empty strings; an Attendance_Day or
\* 'Attended live' cell may be empty (NaN).  Phone cells of a WebinarJam
\* export may carry padding, day and flag cells whitespace and upper case.
Names == {<<"A">>, <<"B">>}
Emails == {<<"e", "1">>, <<"e", "2">>}
Phones == {<<"p", "1">>, <<"p", "2">>}
PaddedPhones == {<<"1">>, <<" ", "1">>}
DayCells ==
    {NaN, <<"a">>, <<" ", "a">>, <<"a", ",", "b">>, <<"a", ",", "a">>}
FlagCells ==
    {NaN, <<"Y", "e", "s">>, <<"Y", "E", "S">>, <<" ", "y", "e", "s", " ">>,
     <<"n", "o">>, <<"m", "a", "y", "b", "e">>}

GrowthflowRows ==
    {[First_Name |-> n, Email |-> e, Phone |-> p, Attendance_Day |-> <<"a">>] :
        n \in Names, e \in Emails, p \in Phones}
    \cup
    {[First_Name |-> <<"A">>, Email |-> e, Phone |-> <<"p", "1">>,
      Attendance_Day |-> d] : e \in Emails, d \in DayCells}

WebinarjamRows ==
    {[First_name |-> n, Email |-> e, Phone_number |-> p,
      Attended_live |-> <<"Y", "e", "s">>] :
        n \in Names, e \in Emails, p \in PaddedPhones}
    \cup
    {[First_name |-> n, Email |-> <<"e", "1">>, Phone_number |-> <<"1">>,
      Attended_live |-> f] : n \in Names, f \in FlagCells}

AllColumns == Range(growthflow_columns) \cup Range(webinarjam_columns)

Csv == <<"c", "s", "v">>
Xlsx == <<"x", "l", "s", "x">>

\* A well-formed export of a platform: exactly its columns.
Export(required_columns, t) ==
    [extension |-> Csv, columns |-> Range(required_columns), rows |-> t]

\* One-row tables under every header that can be formed from the column
\* names of the two platforms.
GrowthflowRow ==
    [First_Name |-> <<"A">>, Email |-> <<"e", "1">>, Phone |-> <<"p", "1">>,
     Attendance_Day |-> <<"a">>]
WebinarjamRow ==
    [First_name |-> <<"A">>, Email |-> <<"e", "1">>, Phone_number |-> <<"1">>,
     Attended_live |-> <<"Y", "e", "s">>]
Headers(row) ==
    {[extension |-> x, columns |-> c, rows |-> <<row>>] :
        x \in {Csv, Xlsx}, c \in SUBSET AllColumns}

NoFile == [extension |-> <<>>, columns |-> {}, rows |-> <<>>]

(***************************************************************************)
(* The script                                                              *)
(***************************************************************************)

Init ==
    /\ option = "Growthflow"
    /\ uploaded_file = NoFile
    /\ phase = "idle"
    /\ returned = "nothing"
    /\ result_df = <<>>
    /\ st_error = <<>>
    /\ steps = <<>>

Select(source, file) ==
    /\ option' = source
    /\ uploaded_file' = file

\* The user picks the source type and uploads a table.
Upload ==
    /\ phase = "idle"
    /\ \/ \E n \in 1..MaxRows : \E t \in [1..n -> GrowthflowRows] :
             Select("Growthflow", Export(growthflow_columns, t))
       \/ \E n \in 1..MaxRows : \E t \in [1..n -> WebinarjamRows] :
             Select("WebinarJam", Export(webinarjam_columns, t))
       \/ \E file \in Headers(GrowthflowRow) : Select("Growthflow", file)
       \/ \E file \in Headers(WebinarjamRow) : Select("WebinarJam", file)
    /\ phase' = "uploaded"
    /\ UNCHANGED <<returned, result_df, st_error, steps>>

Finish(out) ==
    /\ returned' = out.returned
    /\ result_df' = out.result_df
    /\ st_error' = out.st_error
    /\ steps' = out.steps
    /\ phase' = "done"
    /\ UNCHANGED <<option, uploaded_file>>

process_growthflow ==
    /\ phase = "uploaded"
    /\ option = "Growthflow"
    /\ \E rev \in BOOLEAN : Finish(process_growthflow_result(uploaded_file, rev))

process_webinarjam ==
    /\ phase = "uploaded"
    /\ option = "WebinarJam"
    /\ Finish(process_webinarjam_result(uploaded_file))

Next == Upload \/ process_growthflow \/ process_webinarjam

Spec == Init /\ [][Next]_vars

(***************************************************************************)
(* Properties                                                              *)
(***************************************************************************)

Done == phase = "done"
Growthflow == option = "Growthflow"
GrowthflowSummary == Done /\ Growthflow /\ returned = "summary"
WebinarjamSummary == Done /\ ~Growthflow /\ returned = "summary"
rows == uploaded_file.rows
Output == Range(result_df)

RequiredOf(source) ==
    IF source = "Growthflow" THEN growthflow_columns ELSE webinarjam_columns
Missing == Range(RequiredOf(option)) \ uploaded_file.columns

SchemaError ==
    /\ Done
    /\ returned = "None"
    /\ Len(st_error) = 1
    /\ st_error[1].text[1] = "Missing columns in "

\* The rows of the input that carry email e.
RowsOf(e) == {i \in DOMAIN rows : rows[i].Email = e}
First(S) == CHOOSE i \in S : \A j \in S : i <= j

\* The day-set of the specification: split on ',', trim every token; an
\* empty or missing cell has no token.
SpecDaySet(x) ==
    IF x = NaN \/ x = <<>> THEN {}
    ELSE {strip(t) : t \in Range(split(x, ","))}

\* The flag of the specification: 1 when the lowercased, trimmed value is
\* "yes".
SpecFlag(x) ==
    IF x # NaN /\ strip(lower(x)) = <<"y", "e", "s">> THEN 1 ELSE 0

\* Grouping key of an input row as written in the file, with the phone
\* trimmed, and of an output row.
RawKey(r) ==
    IF Growthflow THEN <<r.Email>> ELSE <<r.First_name, r.Email, r.Phone_number>>
TrimmedKey(r) ==
    IF Growthflow THEN <<r.Email>>
    ELSE <<r.First_name, r.Email, strip(astype_str(r.Phone_number))>>
OutKey(r) ==
    IF Growthflow THEN <<r.Email>> ELSE <<r.First_Name, r.Email, r.Phone>>
FirstAppearance(k) == First({i \in DOMAIN rows : TrimmedKey(rows[i]) = k})

\* C1: the Attendance of an email's output row is the number of distinct
\* day tokens in the union of the day-sets of the input rows carrying that
\* email.
C1_AttendanceIsDistinctDays ==
    GrowthflowSummary =>
        \A r \in Output :
            r.Attendance =
                Cardinality(UNION {SpecDaySet(rows[i].Attendance_Day) :
                                      i \in RowsOf(r.Email)})

\* C2: the First Name of an email's output row is the name that occurs most
\* often among the input rows with that email, the first in input order
\* among names of equal frequency.
C2_FirstNameIsMostFrequent ==
    GrowthflowSummary =>
        \A r \in Output :
            LET group == SelectSeq(rows, LAMBDA x : x.Email = r.Email)
            IN  r.First_Name =
                    most_frequent_name([i \in DOMAIN group |-> group[i].First_Name])

\* C3 as stated: output rows are in the order in which their grouping keys
\* first appear in the input.
C3_FirstAppearanceOrder ==
    (Done /\ returned = "summary") =>
        \A m, n \in DOMAIN result_df :
            m < n => FirstAppearance(OutKey(result_df[m]))
                        < FirstAppearance(OutKey(result_df[n]))

\* C3 as amended: output rows are in ascending order of their grouping key
\* (email for Growthflow; name, email, phone for WebinarJam), strings
\* compared by code point.
C3_AscendingKeyOrder ==
    (Done /\ returned = "summary") =>
        \A m, n \in DOMAIN result_df :
            m < n => KeyLess(OutKey(result_df[m]), OutKey(result_df[n]))

\* Two output rows whose keys first appear in the input in the opposite
\* order.
C3_Witness ==
    /\ Done /\ returned = "summary"
    /\ \E m, n \in DOMAIN result_df :
          /\ m < n
          /\ FirstAppearance(OutKey(result_df[n]))
                < FirstAppearance(OutKey(result_df[m]))

\* C4: the day-set of a record is the set of trimmed tokens of its
\* Attendance_Day value, empty for an empty or missing value, so an email
\* whose rows all have an empty day-list gets Attendance 0.
C4_DaySetParsing ==
    GrowthflowSummary =>
        /\ \A i \in DOMAIN rows :
              record_day_set(rows[i].Attendance_Day)
                  = SpecDaySet(rows[i].Attendance_Day)
        /\ \A r \in Output :
              (\A i \in RowsOf(r.Email) : rows[i].Attendance_Day = NaN)
                  => r.Attendance = 0

\* C5: the Attendance of a WebinarJam output row is the number of input
\* rows of its (name, email, phone) triple whose lowercased and trimmed
\* 'Attended live' value is "yes".
C5_AttendanceIsSumOfFlags ==
    WebinarjamSummary =>
        \A r \in Output :
            LET group == SelectSeq(rows, LAMBDA x : TrimmedKey(x) = OutKey(r))
            IN  r.Attendance =
                    Sum([i \in DOMAIN group |-> SpecFlag(group[i].Attended_live)])

\* C6: a WebinarJam input with all required columns always yields a summary
\* table, whatever its 'Attended live' values are, and never st.error with
\* a None result.
C6_FlagsNeverFail ==
    (Done /\ ~Growthflow
          /\ has_required_columns(uploaded_file.columns, webinarjam_columns))
        => (returned = "summary" /\ st_error = <<>>)

C8_MissingColumnIsSchemaError ==
    (Done /\ Missing # {}) =>
        /\ SchemaError
        /\ result_df = <<>>
        /\ steps = <<"read", "required_columns">>

\* A table that has some, not all, of the required columns was processed.
C8_Witness ==
    /\ Done
    /\ Missing # {}
    /\ Missing # Range(RequiredOf(option))
    /\ "First name" \in uploaded_file.columns
    /\ "First Name" \notin uploaded_file.columns

\* C9: the Phone of an email's output row is the phone of the first input
\* row carrying that email.
C9_PhoneOfFirstRow ==
    GrowthflowSummary =>
        \A r \in Output : r.Phone = rows[First(RowsOf(r.Email))].Phone

\* An email whose later row has another phone than its first row.
C9_Witness ==
    /\ GrowthflowSummary
    /\ \E r \in Output :
          \E i \in RowsOf(r.Email) :
              rows[i].Phone # rows[First(RowsOf(r.Email))].Phone

\* C10 as stated: the schema error carries the set of missing columns and
\* the expected column set.
C10_ErrorNamesMissingAndExpected ==
    SchemaError =>
        \E i, j \in DOMAIN st_error[1].args :
            /\ Range(st_error[1].args[i]) = Missing
            /\ Range(st_error[1].args[j]) = Range(RequiredOf(option))

\* C10 as amended: the schema error names the selected source type and
\* carries its full expected column list, and nothing else.
C10_ErrorNamesExpected ==
    SchemaError =>
        /\ st_error[1].text[2] = option
        /\ st_error[1].args = <<RequiredOf(option)>>

\* A schema error for a table that lacks some, not all, required columns.
C10_Witness ==
    /\ SchemaError
    /\ Missing # {}
    /\ Missing # Range(RequiredOf(option))

====
